---------------------------- MODULE Spec2Model ----------------------------
(***************************************************************************)
(* Model of the backup scripts: src/main.py drives BackupManager           *)
(* (src/backups.py) through the gitlab job and then the jenkins job.       *)
(*                                                                         *)
(* A local file is [name, ctime, kind]: name stands for the path (the      *)
(* backups of one directory differ only in a zero-padded timestamp, so the *)
(* order of the numbers is the lexical order of the paths), ctime is what  *)
(* os.path.getctime returns, kind is the shape of the file name.           *)
(* A remote object is [id, createdTime] where                              *)
(* createdTime is the string the Drive API returns, kept as its sequence   *)
(* of digits and compared as Python compares strings.                      *)
(*                                                                         *)
(* Every external call (subprocess, Drive API) is one step whose outcome   *)
(* is chosen by the environment.  The log records each external call the   *)
(* program issues.                                                         *)
(*                                                                         *)
(* Taken from the environment: the system clock does not go back, so a     *)
(* file or object created now is newer than all that exist; nothing else   *)
(* writes to the backup directories or the folders during the run; a       *)
(* folder fits in one page of files().list().                              *)
(***************************************************************************)
EXTENDS Integers, Sequences, FiniteSets, TLC

VARIABLES
    local,        \* [job -> set of files in the job's backup directory]
    remote,       \* [job -> set of objects in the job's Drive folder]
    clock,        \* time of the latest creation (local file or remote object)
    mainPc,       \* main(): the job being run, or "exit"
    exitCode,     \* -1 while the process runs, then its exit status
    pc,           \* position inside run_backup, "idle" outside
    result,       \* [job -> "none" | "running" | "success" | "aborted"]
    error,        \* [job -> the exception that aborted it, "none" otherwise]
    listed,       \* the list `backups` as built from os.listdir, before the sort
    backups,      \* the list `backups` after the sort
    backup_file,  \* the path handed to upload_to_google_drive (0: none yet)
    rmIdx,        \* index in backups[1:] of the next file of the rm loop
    file_id,      \* id of the object created by the upload (0: none)
    listing,      \* the list `files` as the Drive API returned it
    files,        \* the list `files` of clean_drive_folder after the sort
    cleanup,      \* what clean_drive_folder reported: "none", "empty", "kept" or "error"
    delIdx,       \* index in files[1:] of the next object of the delete loop
    existing_dirs,\* the list `existing_dirs` of create_directory_backup
    log,          \* the external calls of the latest run_backup call, in order
    args,         \* the arguments of the latest run_backup call
    present       \* the configured directories for which os.path.exists was true

vars == <<local, remote, clock, mainPc, exitCode, pc, result, error, listed, backups,
          backup_file, rmIdx, file_id, listing, files, cleanup, delIdx, existing_dirs, log,
          args, present>>

(* Bounds of the model: what the directories and folders hold at start. *)
MaxFiles == 2
MaxObjects == 2

Jobs == {"gitlab", "jenkins"}

(* main(): the arguments of the two run_backup calls. *)
JENKINS_DIRECTORIES == <<"/var/lib/jenkins">>

MainArgs ==
    [gitlab  |-> [backup_name |-> "gitlab",  method |-> "gitlab",    directories |-> <<>>],
     jenkins |-> [backup_name |-> "jenkins", method |-> "directory", directories |-> JENKINS_DIRECTORIES]]

NextJob == [gitlab |-> "jenkins", jenkins |-> "exit"]

(* Before the first call there are no arguments. *)
NoArgs == [backup_name |-> "", method |-> "", directories |-> <<>>]

(* run_backup(backup_name, method, directories=None) called by any caller:
   the call main() makes for the job, the same with a method the function
   does not know, and for the directory method a call without directories
   (None and [] are both false for `not directories`; <<>> stands for both)
   and a call with two directories. *)
CallArgs(j) ==
    {MainArgs[j], [MainArgs[j] EXCEPT !.method = "rsync"]} \cup
    (IF MainArgs[j].method = "directory"
     THEN {[MainArgs[j] EXCEPT !.directories = <<>>],
           [MainArgs[j] EXCEPT !.directories = <<"/var/lib/jenkins", "/var/log/jenkins">>]}
     ELSE {})

-----------------------------------------------------------------------------
(* Pure helpers *)

Range(s) == {s[k] : k \in 1..Len(s)}

(* All orders in which a set can be enumerated (os.listdir: arbitrary order). *)
Orders(S) == {s \in [1..Cardinality(S) -> S] : \A a, b \in 1..Cardinality(S) : s[a] = s[b] => a = b}

(* createdTime as the API returns it: a fixed-width string of digits. *)
CreatedTime(t) == <<t \div 10, t % 10>>

(* Python's str `<`: lexicographic, a proper prefix is smaller. *)
RECURSIVE StrLess(_, _)
StrLess(a, b) ==
    IF b = <<>> THEN FALSE
    ELSE IF a = <<>> THEN TRUE
    ELSE IF Head(a) # Head(b) THEN Head(a) < Head(b)
    ELSE StrLess(Tail(a), Tail(b))

(* Mutant: the sort without reverse=True, oldest first. *)
RECURSIVE InsertByCtimeAscending(_, _)
InsertByCtimeAscending(s, x) ==
    IF s = <<>> THEN <<x>>
    ELSE IF Head(s).ctime <= x.ctime THEN <<Head(s)>> \o InsertByCtimeAscending(Tail(s), x)
    ELSE <<x>> \o s

(* list.sort(key=os.path.getctime, reverse=True): stable, equal keys keep
   the order they had in the list. *)
RECURSIVE InsertByCtime(_, _)
InsertByCtime(s, x) ==
    IF s = <<>> THEN <<x>>
    ELSE IF Head(s).ctime >= x.ctime THEN <<Head(s)>> \o InsertByCtime(Tail(s), x)
    ELSE <<x>> \o s

(* Mutant: the list is left in the order of the directory listing. *)
SortByCtimeOmitted(s) == s

RECURSIVE SortByCtime(_)
SortByCtime(s) ==
    IF s = <<>> THEN <<>>
    ELSE InsertByCtime(SortByCtime(SubSeq(s, 1, Len(s) - 1)), s[Len(s)])

(* Mutant: the sort without reverse=True, oldest first. *)
RECURSIVE InsertByCreatedTimeAscending(_, _)
InsertByCreatedTimeAscending(s, x) ==
    IF s = <<>> THEN <<x>>
    ELSE IF ~StrLess(x.createdTime, Head(s).createdTime)
         THEN <<Head(s)>> \o InsertByCreatedTimeAscending(Tail(s), x)
    ELSE <<x>> \o s

(* Mutant: a sort that is not stable, equal keys come out reversed. *)
RECURSIVE InsertByCreatedTimeUnstable(_, _)
InsertByCreatedTimeUnstable(s, x) ==
    IF s = <<>> THEN <<x>>
    ELSE IF StrLess(x.createdTime, Head(s).createdTime)
         THEN <<Head(s)>> \o InsertByCreatedTimeUnstable(Tail(s), x)
    ELSE <<x>> \o s

(* files.sort(key=lambda x: x['createdTime'], reverse=True): stable, equal
   keys keep the order they had in the list. *)
RECURSIVE InsertByCreatedTime(_, _)
InsertByCreatedTime(s, x) ==
    IF s = <<>> THEN <<x>>
    ELSE IF ~StrLess(Head(s).createdTime, x.createdTime)
         THEN <<Head(s)>> \o InsertByCreatedTime(Tail(s), x)
    ELSE <<x>> \o s

RECURSIVE SortByCreatedTime(_)
SortByCreatedTime(s) ==
    IF s = <<>> THEN <<>>
    ELSE InsertByCreatedTime(SortByCreatedTime(SubSeq(s, 1, Len(s) - 1)), s[Len(s)])

(* o is among the most recently created of S. *)
NewestObject(o, S) == o \in S /\ \A g \in S : ~StrLess(o.createdTime, g.createdTime)

(* files().list(..., orderBy="createdTime desc"): the answers the API can
   give for a set of visible objects; the order among equal times is its own. *)
DriveListings(S) ==
    {s \in Orders(S) : \A k \in 1..(Len(s) - 1) : ~StrLess(s[k].createdTime, s[k + 1].createdTime)}

(* Mutant: the rm loop runs over the whole list. *)
OldBackupsAll(bk) == bk

(* backups[1:] and files[1:]: everything but the first element. *)
OldBackups(bk) == SubSeq(bk, 2, Len(bk))

(* Mutant: the rm loop is left after its first pass. *)
AfterRmBreaks(bk, idx) == IF idx > 1 THEN "upload" ELSE "rm_loop"

(* `for old_backup in backups[1:]`: the next pass over the idx-th old backup,
   or, the list being exhausted, the call of upload_to_google_drive. *)
AfterRm(bk, idx) == IF idx > Len(OldBackups(bk)) THEN "upload" ELSE "rm_loop"

(* Mutant: the delete loop never ends. *)
AfterDeleteStays(fs, idx) == "delete_loop"

(* `for file in files[1:]`: the next pass over the idx-th old object, or, the
   list being exhausted, the return. *)
AfterDelete(fs, idx) == IF idx > Len(SubSeq(fs, 2, Len(fs))) THEN "return" ELSE "delete_loop"

(* Mutant: the delete loop runs over the whole of files. *)
OldFilesAll(fs) == fs

(* Mutant: the delete loop runs over files[2:]. *)
OldFilesButTwo(fs) == SubSeq(fs, 3, Len(fs))

OldFiles(fs) == SubSeq(fs, 2, Len(fs))

(* Mutant: the listings without their file-name tests. *)
MatchesAnyFile(a, f) == TRUE

(* The file-name tests of the two listings: f.endswith('_gitlab_backup.tar'),
   and f.startswith(f"{backup_name}_backup_") and f.endswith(".tar.gz"). *)
Matches(a, f) ==
    IF a.method = "gitlab" THEN f.kind = "gitlab" ELSE f.kind = a.backup_name

(* Mutant: subprocess.run without check=True. *)
CheckOmitted(ok) == "none"

(* subprocess.run(..., check=True): a non-zero exit status raises. *)
CheckTrue(ok) == IF ok THEN "none" ELSE "CalledProcessError"

(* Mutant: the rm loop without its try/except. *)
RmLoopWithoutHandler(exc) == FALSE

(* `except subprocess.CalledProcessError` inside the rm loops. *)
CaughtByRmLoop(exc) == exc = "CalledProcessError"

(* Mutant: the delete loop without its try/except. *)
DeleteLoopWithoutHandler(exc) == FALSE

(* `except Exception` inside the delete loop of clean_drive_folder. *)
CaughtByDeleteLoop(exc) == TRUE

(* Mutant: the handler of clean_drive_folder re-raises, as the other
   handlers of the class do. *)
CleanDriveFolderReraises(exc) == FALSE

(* `except Exception` around the body of clean_drive_folder. *)
CaughtByCleanDriveFolder(exc) == TRUE

(* Mutant: without the `if not files` test files[0] raises IndexError. *)
CleanStartWithoutGuard(fs) == IF fs = <<>> THEN "error" ELSE "kept"

(* clean_drive_folder after the listing: `if not files: ... return`, else
   the newest is kept. *)
CleanStart(fs) == IF fs = <<>> THEN "empty" ELSE "kept"

(* Mutant: the handler of upload_to_google_drive only logs. *)
UploadSwallows(exc) == FALSE

(* upload_to_google_drive: `except Exception as e: ... raise`. *)
UploadReraises(exc) == TRUE

(* Mutant: the handler of run_backup only logs. *)
RunBackupSwallows(exc) == FALSE

(* run_backup: `except Exception as e: ... raise`. *)
RunBackupReraises(exc) == TRUE

(* Mutant: run_backup without the `if not directories` test. *)
ConfigErrorWithoutDirectoriesTest(a) ==
    IF a.method \in {"gitlab", "directory"} THEN "none" ELSE "ValueError"

(* run_backup: the check of method and directories. *)
ConfigError(a) ==
    IF a.method = "gitlab" THEN "none"
    ELSE IF a.method = "directory"
         THEN IF a.directories = <<>> THEN "ValueError" ELSE "none"
    ELSE "ValueError"

(* Mutant: every configured directory is handed to tar. *)
ExistingDirsUnfiltered(directories, exists) == directories

(* existing_dirs = [d for d in directories if os.path.exists(d)] *)
ExistingDirs(directories, exists) == SelectSeq(directories, LAMBDA d : d \in exists)

Event(j, op, target, ok) == [job |-> j, op |-> op, target |-> target, ok |-> ok]

-----------------------------------------------------------------------------
(* Initial state: the process starts; each directory and folder holds what
   earlier runs or other tools left there: backups of the job, and possibly
   a file of another name.  Only the order of the times and of the names
   matters to the program, so the names are 1..n and the times are ranks
   (every value up to the greatest occurs), equal ranks being files created
   at the same time.
   The two jobs start from the same contents: no job reads or writes the
   directory or the folder of the other, so nothing is lost by it. *)

Ranks(n) == {f \in [1..n -> 1..n] : \A r \in 1..n : (\E i \in 1..n : f[i] >= r) => \E i \in 1..n : f[i] = r}

InitDirs(kind) ==
    UNION {{{[name |-> i, ctime |-> f[i], kind |-> kind] : i \in 1..n} \cup other :
               f \in Ranks(n), other \in {{}, {[name |-> 0, ctime |-> 1, kind |-> "other"]}}} :
           n \in 0..MaxFiles}

InitFolders ==
    UNION {{{[id |-> i, createdTime |-> CreatedTime(f[i])] : i \in 1..n} : f \in Ranks(n)} :
           n \in 0..MaxObjects}

StartTime == IF MaxFiles > MaxObjects THEN MaxFiles ELSE MaxObjects

Init ==
    /\ \E dir \in InitDirs("backup") :
         local = [j \in Jobs |-> {[f EXCEPT !.kind = IF @ = "backup" THEN j ELSE @] : f \in dir}]
    /\ \E folder \in InitFolders : remote = [j \in Jobs |-> folder]
    /\ clock = StartTime
    /\ mainPc = "gitlab"
    /\ exitCode = -1
    /\ pc = "idle"
    /\ result = [j \in Jobs |-> "none"]
    /\ error = [j \in Jobs |-> "none"]
    /\ listed = <<>>
    /\ backups = <<>>
    /\ backup_file = 0
    /\ rmIdx = 0
    /\ file_id = 0
    /\ listing = <<>>
    /\ files = <<>>
    /\ cleanup = "none"
    /\ delIdx = 0
    /\ existing_dirs = <<>>
    /\ log = <<>>
    /\ args = NoArgs
    /\ present = {}

-----------------------------------------------------------------------------
(* What the steps share *)

(* An exception leaves run_backup (its handler logs and re-raises) and then
   main(), which has no handler: the process ends with a traceback and exit
   status 1. *)
Abort(j, err) ==
    /\ result' = [result EXCEPT ![j] = "aborted"]
    /\ error' = [error EXCEPT ![j] = err]
    /\ pc' = "idle"
    /\ IF RunBackupReraises(err)
       THEN mainPc' = "exit" /\ exitCode' = 1
       ELSE mainPc' = NextJob[j] /\ exitCode' = IF NextJob[j] = "exit" THEN 0 ELSE exitCode

Continue(next) ==
    /\ pc' = next
    /\ UNCHANGED <<result, error, mainPc, exitCode>>

(* Path of a file created now: its timestamp part is the time of creation. *)
NewName(t) == MaxFiles + t

(* Id the store assigns to an object created now. *)
NewId(t) == MaxObjects + t

(* The listing of the backup directory, the sort (newest first) and the entry
   into the loop over backups[1:]. *)
ListAndSort(j, dir) ==
    \E order \in Orders(dir) :
       /\ listed' = SelectSeq(order, LAMBDA f : Matches(args, f))
       /\ backups' = SortByCtime(listed')
       /\ rmIdx' = 1

-----------------------------------------------------------------------------
(* The entry of run_backup(a.backup_name, a.method, a.directories): the test
   of method and directories, before either create_* function is called. *)
RunBackupWith(a) ==
    /\ mainPc \in Jobs
    /\ pc = "idle"
    /\ LET j == mainPc
       IN /\ args' = a
          /\ present' = {}
          /\ listed' = <<>>
          /\ backups' = <<>>
          /\ backup_file' = 0
          /\ rmIdx' = 0
          /\ file_id' = 0
          /\ listing' = <<>>
          /\ files' = <<>>
          /\ cleanup' = "none"
          /\ delIdx' = 0
          /\ existing_dirs' = <<>>
          /\ log' = <<>>
          /\ IF ConfigError(a) # "none"
             THEN Abort(j, ConfigError(a))
             ELSE /\ result' = [result EXCEPT ![j] = "running"]
                  /\ pc' = IF a.method = "gitlab" THEN "gitlab_create" ELSE "chmod_dir"
                  /\ UNCHANGED <<error, mainPc, exitCode>>
    /\ UNCHANGED <<local, remote, clock>>

(* main() calls run_backup for the next job. *)
RunBackup == RunBackupWith(MainArgs[mainPc])

(* A caller other than main(): run_backup with arguments of its choice. *)
RunBackupCall ==
    /\ mainPc \in Jobs
    /\ \E a \in CallArgs(mainPc) : RunBackupWith(a)

(* create_gitlab_backup: `sudo gitlab-backup create`, then the listing of the
   backup directory and the sort.  The command may exit non-zero; exiting with
   0 it has normally written a new *_gitlab_backup.tar, but need not have. *)
GitlabBackupCreate ==
    /\ pc = "gitlab_create"
    /\ LET j == mainPc
           t == clock + 1
       IN \E ok \in BOOLEAN, wrote \in BOOLEAN :
            LET dir == IF wrote
                       THEN local[j] \cup {[name |-> NewName(t), ctime |-> t, kind |-> "gitlab"]}
                       ELSE local[j]
            IN /\ wrote => ok
               /\ log' = Append(log, Event(j, "gitlab-backup", 0, ok))
               /\ local' = [local EXCEPT ![j] = dir]
               /\ clock' = t
               /\ IF CheckTrue(ok) # "none"
                  THEN /\ Abort(j, CheckTrue(ok))
                       /\ UNCHANGED <<listed, backups, backup_file, rmIdx>>
                  ELSE IF \A f \in dir : ~Matches(args, f)
                  THEN /\ Abort(j, "FileNotFoundError")
                       /\ UNCHANGED <<listed, backups, backup_file, rmIdx>>
                  ELSE /\ ListAndSort(j, dir)
                       /\ backup_file' = backups'[1].name
                       /\ Continue(AfterRm(backups', 1))
    /\ UNCHANGED <<remote, file_id, listing, files, cleanup, delIdx, existing_dirs,
                   args, present>>

(* create_directory_backup: makedirs and `sudo chmod 755` of the backup
   directory. *)
ChmodBackupDir ==
    /\ pc = "chmod_dir"
    /\ LET j == mainPc IN
       \E ok \in BOOLEAN :
          /\ log' = Append(log, Event(j, "chmod", 0, ok))
          /\ IF CheckTrue(ok) # "none"
             THEN Abort(j, CheckTrue(ok))
             ELSE Continue("tar")
    /\ UNCHANGED <<local, remote, clock, listed, backups, backup_file, rmIdx, file_id,
                   listing, files, cleanup, delIdx, existing_dirs,
                   args, present>>

(* create_directory_backup: the name of the archive, the filter of the
   directories that exist, and `sudo tar -czf`.  A failing tar may leave the
   file it was writing. *)
TarDirectories ==
    /\ pc = "tar"
    /\ LET j == mainPc
           t == clock + 1
       IN \E exists \in SUBSET Range(args.directories) :
            LET dirs == ExistingDirs(args.directories, exists) IN
            /\ present' = exists
            /\ existing_dirs' = dirs
            /\ backup_file' = NewName(t)
            /\ IF dirs = <<>>
               THEN /\ Abort(j, "FileNotFoundError")
                    /\ UNCHANGED <<local, clock, log>>
               ELSE \E ok \in BOOLEAN, written \in BOOLEAN :
                      /\ ok => written
                      /\ log' = Append(log, Event(j, "tar", NewName(t), ok))
                      /\ clock' = t
                      /\ local' = IF written
                                  THEN [local EXCEPT ![j] = @ \cup
                                          {[name |-> NewName(t), ctime |-> t, kind |-> args.backup_name]}]
                                  ELSE local
                      /\ IF CheckTrue(ok) # "none"
                         THEN Abort(j, CheckTrue(ok))
                         ELSE Continue("chmod_file")
    /\ UNCHANGED <<remote, listed, backups, rmIdx, file_id, listing, files, cleanup, delIdx,
                   args>>

(* create_directory_backup: `sudo chmod 644` of the archive (which sets its
   ctime), then the listing of the backup directory and the sort. *)
ChmodBackupFile ==
    /\ pc = "chmod_file"
    /\ LET j == mainPc
           t == clock + 1
       IN \E ok \in BOOLEAN :
            LET dir == IF ok
                       THEN {IF f.name = backup_file THEN [f EXCEPT !.ctime = t] ELSE f : f \in local[j]}
                       ELSE local[j]
            IN /\ log' = Append(log, Event(j, "chmod", backup_file, ok))
               /\ local' = [local EXCEPT ![j] = dir]
               /\ clock' = t
               /\ IF CheckTrue(ok) # "none"
                  THEN /\ Abort(j, CheckTrue(ok))
                       /\ UNCHANGED <<listed, backups, rmIdx>>
                  ELSE /\ ListAndSort(j, dir)
                       /\ Continue(AfterRm(backups', 1))
    /\ UNCHANGED <<remote, backup_file, file_id, listing, files, cleanup, delIdx, existing_dirs,
                   args, present>>

(* One pass of the loop over backups[1:]: `sudo rm`, whose failure is caught
   inside the loop. *)
RemoveOldBackup ==
    /\ pc = "rm_loop"
    /\ rmIdx <= Len(OldBackups(backups))
    /\ LET j == mainPc
           old == OldBackups(backups)[rmIdx]
       IN \E ok \in BOOLEAN :
            /\ log' = Append(log, Event(j, "rm", old.name, ok))
            /\ local' = IF ok THEN [local EXCEPT ![j] = {f \in @ : f.name # old.name}] ELSE local
            /\ IF CheckTrue(ok) = "none" \/ CaughtByRmLoop(CheckTrue(ok))
               THEN Continue(AfterRm(backups, rmIdx + 1))
               ELSE Abort(j, CheckTrue(ok))
    /\ rmIdx' = rmIdx + 1
    /\ UNCHANGED <<remote, clock, listed, backups, backup_file, file_id, listing, files,
                   cleanup, delIdx, existing_dirs,
                   args, present>>

(* upload_to_google_drive up to the sleep: credentials, service,
   MediaFileUpload (which opens the file) and files().create(), the store
   giving the new object the createdTime `created`.  Any exception is logged
   and re-raised. *)
UploadWith(created) ==
    /\ pc = "upload"
    /\ LET j == mainPc
           t == clock + 1
       IN \E ok \in BOOLEAN :
            /\ ok => \E f \in local[j] : f.name = backup_file
            /\ log' = Append(log, Event(j, "upload", backup_file, ok))
            /\ IF ok
               THEN /\ remote' = [remote EXCEPT ![j] = @ \cup
                                    {[id |-> NewId(t), createdTime |-> created]}]
                    /\ clock' = t
                    /\ file_id' = NewId(t)
                    /\ Continue("list")
               ELSE /\ IF UploadReraises("UploadError")
                       THEN Abort(j, "UploadError")
                       ELSE Continue("return")
                    /\ UNCHANGED <<remote, clock, file_id>>
    /\ UNCHANGED <<local, listed, backups, backup_file, rmIdx, listing, files, cleanup,
                   delIdx, existing_dirs,
                   args, present>>

(* The upload, the new object being newer than all the folder holds. *)
UploadToGoogleDrive == UploadWith(CreatedTime(clock + 1))

(* The upload, the store giving the new object the createdTime of the newest
   object the folder holds (the timestamps have a resolution, and the store
   sets them, not this process). *)
UploadAtSameTime ==
    /\ mainPc \in Jobs
    /\ \E o \in remote[mainPc] :
         /\ NewestObject(o, remote[mainPc])
         /\ UploadWith(o.createdTime)

(* An exception raised inside clean_drive_folder reaches its outer handler,
   which logs it and returns. *)
CleanRaises(j, exc) ==
    IF CaughtByCleanDriveFolder(exc)
    THEN cleanup' = "error" /\ Continue("return")
    ELSE cleanup' = cleanup /\ Abort(j, exc)

(* clean_drive_folder: files().list() and the sort.  The listing may not show
   the object just uploaded yet. *)
ListDriveFolder ==
    /\ pc = "list"
    /\ LET j == mainPc IN
       \E ok \in BOOLEAN :
          /\ log' = Append(log, Event(j, "list", 0, ok))
          /\ IF ~ok
             THEN /\ CleanRaises(j, "HttpError")
                  /\ UNCHANGED <<listing, files, delIdx>>
             ELSE \E visible \in {remote[j], {o \in remote[j] : o.id # file_id}} :
                    \E answer \in DriveListings(visible) :
                      /\ listing' = answer
                      /\ files' = SortByCreatedTime(answer)
                      /\ delIdx' = 1
                      /\ IF CleanStart(files') = "error"
                         THEN CleanRaises(j, "IndexError")
                         ELSE /\ cleanup' = CleanStart(files')
                              /\ Continue(IF OldFiles(files') # <<>> THEN "delete_loop" ELSE "return")
    /\ UNCHANGED <<local, remote, clock, listed, backups, backup_file, rmIdx, file_id,
                   existing_dirs,
                   args, present>>

(* One pass of the loop over files[1:]: files().delete(), whose failure is
   caught inside the loop. *)
DeleteDriveFile ==
    /\ pc = "delete_loop"
    /\ delIdx <= Len(OldFiles(files))
    /\ LET j == mainPc
           file == OldFiles(files)[delIdx]
       IN \E ok \in BOOLEAN :
            /\ log' = Append(log, Event(j, "delete", file.id, ok))
            /\ remote' = IF ok THEN [remote EXCEPT ![j] = {o \in @ : o.id # file.id}] ELSE remote
            /\ IF ok \/ CaughtByDeleteLoop("HttpError")
               THEN /\ Continue(AfterDelete(files, delIdx + 1))
                    /\ cleanup' = cleanup
               ELSE CleanRaises(j, "HttpError")
    /\ delIdx' = delIdx + 1
    /\ UNCHANGED <<local, clock, listed, backups, backup_file, rmIdx, file_id, listing,
                   files, existing_dirs,
                   args, present>>

(* upload_to_google_drive, create_*_backup and run_backup return; main() goes
   on to the next call, or ends. *)
RunBackupReturn ==
    /\ pc = "return"
    /\ LET j == mainPc IN
       /\ result' = [result EXCEPT ![j] = "success"]
       /\ mainPc' = NextJob[j]
       /\ exitCode' = IF NextJob[j] = "exit" THEN 0 ELSE exitCode
    /\ pc' = "idle"
    /\ UNCHANGED <<local, remote, clock, error, listed, backups, backup_file, rmIdx,
                   file_id, listing, files, cleanup, delIdx, existing_dirs, log,
                   args, present>>

Next ==
    \/ RunBackup
    \/ GitlabBackupCreate
    \/ ChmodBackupDir
    \/ TarDirectories
    \/ ChmodBackupFile
    \/ RemoveOldBackup
    \/ UploadToGoogleDrive
    \/ ListDriveFolder
    \/ DeleteDriveFile
    \/ RunBackupReturn

Spec == Init /\ [][Next]_vars

(* run_backup under any caller: the two calls in the order of main(), with
   arguments of the caller's choice. *)
NextCall ==
    \/ RunBackupCall
    \/ GitlabBackupCreate
    \/ ChmodBackupDir
    \/ TarDirectories
    \/ ChmodBackupFile
    \/ RemoveOldBackup
    \/ UploadToGoogleDrive
    \/ ListDriveFolder
    \/ DeleteDriveFile
    \/ RunBackupReturn

SpecCall == Init /\ [][NextCall]_vars

(* The process is one thread and every external call returns: whenever a step
   is possible, one is taken. *)
FairSpec == Spec /\ WF_vars(Next)

(* main() with a store whose createdTime may repeat: the new object may get
   the createdTime of the newest object of the folder. *)
NextTies ==
    \/ RunBackup
    \/ GitlabBackupCreate
    \/ ChmodBackupDir
    \/ TarDirectories
    \/ ChmodBackupFile
    \/ RemoveOldBackup
    \/ UploadToGoogleDrive
    \/ UploadAtSameTime
    \/ ListDriveFolder
    \/ DeleteDriveFile
    \/ RunBackupReturn

SpecTies == Init /\ [][NextTies]_vars

-----------------------------------------------------------------------------
(* The standalone scripts: src/gitlab_backup.py (GitLabBackupManager) and
   src/jenkins_backup.py (JenkinsBackupManager).  Each is a process of its
   own whose main() constructs the manager and calls run(); mainPc is the
   script that was started.  They work on the directory and the folder of
   the job of the same name. *)

(* max(backups, key=os.path.getctime): the first of the list among those of
   greatest ctime. *)
RECURSIVE MaxByCtime(_)
MaxByCtime(s) ==
    IF Len(s) = 1 THEN s[1]
    ELSE LET m == MaxByCtime(SubSeq(s, 1, Len(s) - 1))
         IN IF s[Len(s)].ctime > m.ctime THEN s[Len(s)] ELSE m

(* backups[keep_last:] with keep_last=1, as run() calls cleanup_old_backups. *)
BackupsAfterKeepLast(bk) == SubSeq(bk, 2, Len(bk))

(* What os.remove can do: succeed, or raise PermissionError or another
   OSError. *)
RemoveOutcomes == {"none", "PermissionError", "OSError"}

(* `except PermissionError` inside the loop of cleanup_old_backups. *)
CaughtByRemoveLoop(exc) == exc = "PermissionError"

InitStandalone ==
    /\ \E dir \in InitDirs("backup") :
         local = [j \in Jobs |-> {[f EXCEPT !.kind = IF @ = "backup" THEN j ELSE @] : f \in dir}]
    /\ \E folder \in InitFolders : remote = [j \in Jobs |-> folder]
    /\ clock = StartTime
    /\ mainPc \in Jobs
    /\ exitCode = -1
    /\ pc = "idle"
    /\ result = [j \in Jobs |-> "none"]
    /\ error = [j \in Jobs |-> "none"]
    /\ listed = <<>>
    /\ backups = <<>>
    /\ backup_file = 0
    /\ rmIdx = 0
    /\ file_id = 0
    /\ listing = <<>>
    /\ files = <<>>
    /\ cleanup = "none"
    /\ delIdx = 0
    /\ existing_dirs = <<>>
    /\ log = <<>>
    /\ args = NoArgs
    /\ present = {}

(* An exception leaves run() (its handler logs and re-raises) and main(),
   which has no handler: exit status 1. *)
Raise(j, err) ==
    /\ result' = [result EXCEPT ![j] = "aborted"]
    /\ error' = [error EXCEPT ![j] = err]
    /\ pc' = "idle"
    /\ mainPc' = "exit"
    /\ exitCode' = 1

(* main() of the script calls run(). *)
ManagerRun ==
    /\ mainPc \in Jobs
    /\ pc = "idle"
    /\ result[mainPc] = "none"
    /\ result' = [result EXCEPT ![mainPc] = "running"]
    /\ pc' = IF mainPc = "gitlab" THEN "gl_create" ELSE "jk_create"
    /\ UNCHANGED <<local, remote, clock, mainPc, exitCode, error, listed, backups,
                   backup_file, rmIdx, file_id, listing, files, cleanup, delIdx,
                   existing_dirs, log, args, present>>

(* GitLabBackupManager.create_gitlab_backup: the command, the listing of the
   backup directory, and max() by ctime. *)
GitLabCreateBackup ==
    /\ pc = "gl_create"
    /\ LET j == mainPc
           t == clock + 1
       IN \E ok \in BOOLEAN, wrote \in BOOLEAN :
            LET dir == IF wrote
                       THEN local[j] \cup {[name |-> NewName(t), ctime |-> t, kind |-> "gitlab"]}
                       ELSE local[j]
            IN /\ wrote => ok
               /\ log' = Append(log, Event(j, "gitlab-backup", 0, ok))
               /\ local' = [local EXCEPT ![j] = dir]
               /\ clock' = t
               /\ IF CheckTrue(ok) # "none"
                  THEN /\ Raise(j, CheckTrue(ok))
                       /\ UNCHANGED <<listed, backup_file>>
                  ELSE \E order \in Orders(dir) :
                         /\ listed' = SelectSeq(order, LAMBDA f : f.kind = "gitlab")
                         /\ IF listed' = <<>>
                            THEN /\ Raise(j, "ValueError")
                                 /\ backup_file' = backup_file
                            ELSE /\ backup_file' = MaxByCtime(listed').name
                                 /\ Continue("gl_upload")
    /\ UNCHANGED <<remote, backups, rmIdx, file_id, listing, files, cleanup, delIdx,
                   existing_dirs, args, present>>

(* GitLabBackupManager.upload_to_google_drive up to files().create(). *)
GitLabUpload ==
    /\ pc = "gl_upload"
    /\ LET j == mainPc
           t == clock + 1
       IN \E ok \in BOOLEAN :
            /\ ok => \E f \in local[j] : f.name = backup_file
            /\ log' = Append(log, Event(j, "upload", backup_file, ok))
            /\ IF ok
               THEN /\ remote' = [remote EXCEPT ![j] = @ \cup
                                    {[id |-> NewId(t), createdTime |-> CreatedTime(t)]}]
                    /\ clock' = t
                    /\ file_id' = NewId(t)
                    /\ Continue("gl_list")
               ELSE /\ Raise(j, "UploadError")
                    /\ UNCHANGED <<remote, clock, file_id>>
    /\ UNCHANGED <<local, listed, backups, backup_file, rmIdx, listing, files, cleanup,
                   delIdx, existing_dirs, args, present>>

(* GitLabBackupManager.upload_to_google_drive: files().list() (no orderBy)
   and the sort.  The call stands in the try block of the upload: its
   failure reaches the handler of that block, which logs "upload failed" and
   re-raises. *)
GitLabListFolder ==
    /\ pc = "gl_list"
    /\ LET j == mainPc IN
       \E ok \in BOOLEAN :
          /\ log' = Append(log, Event(j, "list", 0, ok))
          /\ IF ~ok
             THEN /\ Raise(j, "HttpError")
                  /\ UNCHANGED <<listing, files, delIdx>>
             ELSE \E visible \in {remote[j], {o \in remote[j] : o.id # file_id}} :
                    \E answer \in Orders(visible) :
                      /\ listing' = answer
                      /\ files' = SortByCreatedTime(answer)
                      /\ delIdx' = 1
                      /\ Continue(IF OldFiles(files') # <<>> THEN "gl_delete" ELSE "gl_cleanup")
    /\ UNCHANGED <<local, remote, clock, listed, backups, backup_file, rmIdx, file_id,
                   cleanup, existing_dirs, args, present>>

(* One pass of the loop over files[1:]: files().delete(), whose failure is
   caught inside the loop. *)
GitLabDeleteFile ==
    /\ pc = "gl_delete"
    /\ delIdx <= Len(OldFiles(files))
    /\ LET j == mainPc
           file == OldFiles(files)[delIdx]
       IN \E ok \in BOOLEAN :
            /\ log' = Append(log, Event(j, "delete", file.id, ok))
            /\ remote' = IF ok THEN [remote EXCEPT ![j] = {o \in @ : o.id # file.id}] ELSE remote
            /\ Continue(IF delIdx + 1 > Len(OldFiles(files)) THEN "gl_cleanup" ELSE "gl_delete")
    /\ delIdx' = delIdx + 1
    /\ UNCHANGED <<local, clock, listed, backups, backup_file, rmIdx, file_id, listing,
                   files, cleanup, existing_dirs, args, present>>

(* GitLabBackupManager.cleanup_old_backups: the listing of the backup
   directory and the sort. *)
GitLabCleanupOldBackups ==
    /\ pc = "gl_cleanup"
    /\ \E order \in Orders(local[mainPc]) :
         /\ backups' = SortByCtime(SelectSeq(order, LAMBDA f : f.kind = "gitlab"))
         /\ rmIdx' = 1
         /\ Continue(IF BackupsAfterKeepLast(backups') # <<>> THEN "gl_remove" ELSE "sa_return")
    /\ UNCHANGED <<local, remote, clock, listed, backup_file, file_id, listing, files,
                   cleanup, delIdx, existing_dirs, log, args, present>>

(* One pass of the loop over backups[keep_last:]: os.remove.  PermissionError
   is caught inside the loop; any other exception ends cleanup_old_backups in
   its outer handler, which logs it. *)
GitLabRemoveBackup ==
    /\ pc = "gl_remove"
    /\ rmIdx <= Len(BackupsAfterKeepLast(backups))
    /\ LET j == mainPc
           old == BackupsAfterKeepLast(backups)[rmIdx]
       IN \E exc \in RemoveOutcomes :
            /\ log' = Append(log, Event(j, "rm", old.name, exc = "none"))
            /\ local' = IF exc = "none"
                        THEN [local EXCEPT ![j] = {f \in @ : f.name # old.name}]
                        ELSE local
            /\ IF exc = "none" \/ CaughtByRemoveLoop(exc)
               THEN Continue(IF rmIdx + 1 > Len(BackupsAfterKeepLast(backups))
                             THEN "sa_return" ELSE "gl_remove")
               ELSE Continue("sa_return")
    /\ rmIdx' = rmIdx + 1
    /\ UNCHANGED <<remote, clock, listed, backups, backup_file, file_id, listing, files,
                   cleanup, delIdx, existing_dirs, args, present>>

(* JenkinsBackupManager.create_backup: the name of the archive and
   `sudo tar -czf` of the jenkins directory.  In run() the call of
   upload_to_google_drive that followed is commented out: run() returns. *)
JenkinsCreateBackup ==
    /\ pc = "jk_create"
    /\ LET j == mainPc
           t == clock + 1
       IN \E ok \in BOOLEAN, written \in BOOLEAN :
            /\ ok => written
            /\ log' = Append(log, Event(j, "tar", NewName(t), ok))
            /\ clock' = t
            /\ local' = IF written
                        THEN [local EXCEPT ![j] = @ \cup
                                {[name |-> NewName(t), ctime |-> t, kind |-> "jenkins"]}]
                        ELSE local
            /\ IF CheckTrue(ok) # "none"
               THEN /\ Raise(j, CheckTrue(ok))
                    /\ backup_file' = backup_file
               ELSE /\ backup_file' = NewName(t)
                    /\ Continue("sa_return")
    /\ UNCHANGED <<remote, listed, backups, rmIdx, file_id, listing, files, cleanup,
                   delIdx, existing_dirs, args, present>>

(* run() returns, and main() with it: exit status 0. *)
ManagerRunReturn ==
    /\ pc = "sa_return"
    /\ result' = [result EXCEPT ![mainPc] = "success"]
    /\ mainPc' = "exit"
    /\ exitCode' = 0
    /\ pc' = "idle"
    /\ UNCHANGED <<local, remote, clock, error, listed, backups, backup_file, rmIdx,
                   file_id, listing, files, cleanup, delIdx, existing_dirs, log,
                   args, present>>

NextStandalone ==
    \/ ManagerRun
    \/ GitLabCreateBackup
    \/ GitLabUpload
    \/ GitLabListFolder
    \/ GitLabDeleteFile
    \/ GitLabCleanupOldBackups
    \/ GitLabRemoveBackup
    \/ JenkinsCreateBackup
    \/ ManagerRunReturn

SpecStandalone == InitStandalone /\ [][NextStandalone]_vars

TypeOK ==
    /\ pc \in {"idle", "gitlab_create", "chmod_dir", "tar", "chmod_file", "rm_loop",
               "upload", "list", "delete_loop", "return",
               "gl_create", "gl_upload", "gl_list", "gl_delete", "gl_cleanup", "gl_remove",
               "jk_create", "sa_return"}
    /\ mainPc \in Jobs \cup {"exit"}
    /\ exitCode \in {-1, 0, 1}
    /\ \A j \in Jobs : result[j] \in {"none", "running", "success", "aborted"}
    /\ cleanup \in {"none", "empty", "kept", "error"}

-----------------------------------------------------------------------------
(* What the claims speak of *)

(* The files of job j's directory that carry the job's naming pattern. *)
Matching(j) == {f \in local[j] : Matches(MainArgs[j], f)}

(* The calls of one kind that job j has issued. *)
Calls(j, op) == SelectSeq(log, LAMBDA e : e.job = j /\ e.op = op)

Targets(calls) == {calls[k].target : k \in 1..Len(calls)}

AllOk(calls) == \A k \in 1..Len(calls) : calls[k].ok

SomeFailed(calls) == \E k \in 1..Len(calls) : ~calls[k].ok

Ids(objs) == {o.id : o \in objs}

Names(fs) == {f.name : f \in fs}

(* f is among the most recently created of S. *)
NewestFile(f, S) == f \in S /\ \A g \in S : g.ctime <= f.ctime

-----------------------------------------------------------------------------
(* C1: no step of a job run empties a domain that held an artifact: the
   matching files of a backup directory and the objects of a remote folder,
   once non-empty, stay non-empty across every step, whatever call fails. *)
C1_NoBackupLoss ==
    [][\A j \in Jobs :
         /\ Matching(j) # {} => Matching(j)' # {}
         /\ remote[j] # {} => remote[j]' # {}]_vars

(* A run that removed local files and remote objects, with one remote delete
   failing, and still holds an artifact in both domains. *)
C1_Witness ==
    \E j \in Jobs :
       /\ \E k \in 1..Len(log) : log[k].job = j /\ log[k].op = "rm" /\ log[k].ok
       /\ \E k \in 1..Len(log) : log[k].job = j /\ log[k].op = "delete" /\ log[k].ok
       /\ SomeFailed(Calls(j, "delete"))
       /\ Matching(j) # {}
       /\ remote[j] # {}

(* C2: every configured job is started whatever the outcome of the jobs
   before it: when the run is over, no job is left unstarted. *)
C2_JobIsolation ==
    mainPc = "exit" => \A j \in Jobs : result[j] # "none"

(* C3: when gitlab-backup create or tar exits non-zero the job is Aborted
   with that failure as its error, and the job issues no rm, no upload, no
   remote listing and no remote delete. *)
C3_CommandFailureAborts ==
    \A j \in Jobs :
       SomeFailed(Calls(j, "gitlab-backup") \o Calls(j, "tar")) =>
          /\ result[j] = "aborted"
          /\ error[j] = "CalledProcessError"
          /\ \A k \in 1..Len(log) :
                log[k].job = j => log[k].op \notin {"rm", "upload", "list", "delete"}

(* A failed backup command or tar in a directory that holds older backups. *)
C3_Witness ==
    \E j \in Jobs :
       /\ SomeFailed(Calls(j, "gitlab-backup") \o Calls(j, "tar"))
       /\ Cardinality(Matching(j)) >= 2
       /\ remote[j] # {}

C5_RmFailureNotFatal ==
    \A j \in Jobs :
       SomeFailed(Calls(j, "rm")) =>
          /\ result[j] = "aborted" => error[j] = "UploadError"
          /\ \/ j = mainPc /\ pc = "rm_loop"
             \/ /\ [k \in 1..Len(Calls(j, "rm")) |-> Calls(j, "rm")[k].target] =
                      [k \in 1..Len(OldBackups(backups)) |-> OldBackups(backups)[k].name]
                /\ backups[1] \in local[j]
                /\ backup_file = backups[1].name
                /\ (j = mainPc /\ pc = "upload") \/ Calls(j, "upload") # <<>>

(* The first of two rm calls failed, the second was still issued, and the
   job stands at the upload. *)
C5_Witness ==
    /\ pc = "upload"
    /\ Len(Calls(mainPc, "rm")) = 2
    /\ ~Calls(mainPc, "rm")[1].ok

(* C6: for a listing of n >= 1 objects remote retention issues exactly n - 1
   delete calls, one for each listed object except one most recently created
   object, whichever of the calls fail. *)
C6_DeletesAllButNewest ==
    (pc = "return" /\ listing # <<>>) =>
       LET dels == Calls(mainPc, "delete") IN
       /\ Len(dels) = Len(listing) - 1
       /\ Cardinality(Targets(dels)) = Len(dels)
       /\ \E kept \in Range(listing) :
             /\ NewestObject(kept, Range(listing))
             /\ Targets(dels) = Ids(Range(listing)) \ {kept.id}

(* Retention over a listing of three whose first delete call failed. *)
C6_Witness ==
    /\ pc = "return"
    /\ Len(listing) = 3
    /\ Len(Calls(mainPc, "delete")) = 2
    /\ ~Calls(mainPc, "delete")[1].ok

(* C7: on an empty listing remote retention issues no delete call and
   reports the no-object outcome, not an error; the job is not aborted. *)
C7_EmptyListing ==
    \A j \in Jobs :
       (Calls(j, "list") # <<>> /\ AllOk(Calls(j, "list")) /\ listing = <<>>) =>
          /\ Calls(j, "delete") = <<>>
          /\ cleanup = "empty"
          /\ result[j] # "aborted"

(* A job that ended in success after an empty listing. *)
C7_Witness ==
    \E j \in Jobs :
       /\ Calls(j, "list") # <<>> /\ AllOk(Calls(j, "list")) /\ listing = <<>>
       /\ result[j] = "success"

(* C8: when the upload succeeded and the remote listing call fails, no
   remote delete is issued, no exception leaves run_backup and the job ends
   in success. *)
C8_ListFailureNotFatal ==
    \A j \in Jobs :
       SomeFailed(Calls(j, "list")) =>
          /\ AllOk(Calls(j, "upload")) /\ Calls(j, "upload") # <<>>
          /\ Calls(j, "delete") = <<>>
          /\ result[j] # "aborted"
          /\ IF j = mainPc /\ pc # "idle" THEN pc = "return" ELSE result[j] = "success"

(* A job that ended in success although its listing call failed. *)
C8_Witness ==
    \E j \in Jobs : SomeFailed(Calls(j, "list")) /\ result[j] = "success"

(* C9 as stated: in the directory job the only matching file left after the
   pruning is the one with the maximum creation time, and it is the one
   handed to the upload. *)
C9_OnlyNewestLeftAndUploaded ==
    \A k \in 1..Len(log) :
       (log[k].job = "jenkins" /\ log[k].op = "upload") =>
          \E f \in Range(listed) :
             /\ NewestFile(f, Range(listed))
             /\ Matching("jenkins") = {f}
             /\ log[k].target = f.name

(* C9 as amended: in the directory job the file handed to the upload is the
   file local retention kept, a file with the maximum creation time that no
   rm was issued for; it is the only matching file left when every rm
   succeeded. *)
C9_UploadsKeptFile ==
    \A k \in 1..Len(log) :
       (log[k].job = "jenkins" /\ log[k].op = "upload") =>
          /\ log[k].target = backups[1].name
          /\ NewestFile(backups[1], Range(listed))
          /\ backups[1] \in Matching("jenkins")
          /\ log[k].target \notin Targets(Calls("jenkins", "rm"))
          /\ AllOk(Calls("jenkins", "rm")) => Matching("jenkins") = {backups[1]}

(* The directory job uploaded its archive after removing two older ones. *)
C9_Witness ==
    /\ Calls("jenkins", "upload") # <<>>
    /\ AllOk(Calls("jenkins", "upload"))
    /\ Len(listed) = 3
    /\ AllOk(Calls("jenkins", "rm"))

(* The objects the folder of the running job held when it was listed: those
   still there and those deleted since. *)
FolderAtListing == remote[mainPc] \cup Range(files)

DistinctTimes(S) == \A a, b \in S : a.createdTime = b.createdTime => a = b

(* C10 as stated: for a folder of objects with pairwise distinct timestamps,
   after upload and remote retention with all deletes succeeding the folder
   holds exactly one object, the one with the maximum timestamp. *)
C10_OneObjectLeft ==
    (pc = "return" /\ DistinctTimes(FolderAtListing) /\ AllOk(Calls(mainPc, "delete"))) =>
       \E o \in FolderAtListing :
          /\ NewestObject(o, FolderAtListing)
          /\ remote[mainPc] = {o}

(* C10 as amended: the same, provided the listing call succeeded and showed
   every object of the folder, the uploaded one included. *)
C10_OneObjectLeftWhenListed ==
    (/\ pc = "return"
     /\ DistinctTimes(FolderAtListing)
     /\ AllOk(Calls(mainPc, "delete"))
     /\ AllOk(Calls(mainPc, "list"))
     /\ file_id \in Ids(Range(listing))) =>
       \E o \in FolderAtListing :
          /\ NewestObject(o, FolderAtListing)
          /\ remote[mainPc] = {o}

(* Two older objects with distinct timestamps and the uploaded one, all
   listed, both deletes succeeding. *)
C10_Witness ==
    /\ pc = "return"
    /\ Len(listing) = 3
    /\ DistinctTimes(FolderAtListing)
    /\ file_id \in Ids(Range(listing))
    /\ Len(Calls(mainPc, "delete")) = 2
    /\ AllOk(Calls(mainPc, "delete"))

-----------------------------------------------------------------------------
(* C11 as stated: after a run of a job that ends in success the job's
   directory holds at most one file matching its pattern and its folder at
   most one object. *)
C11_AtMostOneEach ==
    \A j \in Jobs :
       result[j] = "success" =>
          /\ Cardinality(Matching(j)) <= 1
          /\ Cardinality(remote[j]) <= 1

(* C11 as amended: when a job is about to end in success, its directory holds
   the kept file and the files whose rm failed, so at most one file when
   every rm succeeded; its folder holds at most one object when the listing
   call succeeded, showed the uploaded object and every delete succeeded. *)
C11_AtMostOneWhenPruned ==
    pc = "return" =>
       LET j == mainPc
           rms == Calls(j, "rm")
       IN /\ Cardinality(Matching(j)) = 1 + Cardinality({k \in 1..Len(rms) : ~rms[k].ok})
          /\ AllOk(rms) => Cardinality(Matching(j)) <= 1
          /\ (/\ AllOk(Calls(j, "list"))
              /\ file_id \in Ids(Range(listing))
              /\ AllOk(Calls(j, "delete"))) => Cardinality(remote[j]) <= 1

(* A job about to end in success after pruning three files down to one and
   three objects down to one. *)
C11_Witness ==
    /\ pc = "return"
    /\ Len(listed) = 3
    /\ AllOk(Calls(mainPc, "rm"))
    /\ Len(listing) = 3
    /\ file_id \in Ids(Range(listing))
    /\ AllOk(Calls(mainPc, "delete"))
    /\ Cardinality(Matching(mainPc)) = 1
    /\ Cardinality(remote[mainPc]) = 1

(* C12: when the upload fails the job is Aborted with that error, remote
   retention is not run (no listing, no delete) and the step that failed
   leaves the remote folder as it was. *)
C12_UploadFailureAborts ==
    /\ [](\A j \in Jobs :
            SomeFailed(Calls(j, "upload")) =>
               /\ result[j] = "aborted"
               /\ error[j] = "UploadError"
               /\ Calls(j, "list") = <<>>
               /\ Calls(j, "delete") = <<>>)
    /\ [][(pc = "upload" /\ pc' # "list") => remote' = remote]_vars

(* An upload failed for a job whose folder holds objects. *)
C12_Witness ==
    \E j \in Jobs :
       /\ SomeFailed(Calls(j, "upload"))
       /\ Cardinality(remote[j]) >= 2

(* C13: the process exits with a non-zero status if and only if some job
   ended Aborted, and with status zero when every job ended in success. *)
C13_ExitStatus ==
    mainPc = "exit" =>
       /\ exitCode # 0 <=> \E j \in Jobs : result[j] = "aborted"
       /\ (\A j \in Jobs : result[j] = "success") => exitCode = 0
       /\ exitCode \in {0, 1}

(* The process ended with status 0 after two successful jobs. *)
C13_Witness ==
    /\ mainPc = "exit"
    /\ exitCode = 0
    /\ \A j \in Jobs : result[j] = "success"

-----------------------------------------------------------------------------
(* A configuration the specification calls invalid: a method other than the
   two known ones, or the directory method without directories. *)
InvalidConfiguration(a) ==
    \/ a.method \notin {"gitlab", "directory"}
    \/ a.method = "directory" /\ Len(a.directories) = 0

(* C14: a run_backup call with an invalid configuration (unknown method, or
   the directory method with an empty or missing list of directories) fails
   with ValueError before any external process is invoked: the job is
   aborted, no external call has been issued, and neither the backup
   directories nor the folders have changed. *)
C14_InvalidConfigurationFailsFast ==
    /\ [](args # NoArgs /\ InvalidConfiguration(args) =>
            /\ result[args.backup_name] = "aborted"
            /\ error[args.backup_name] = "ValueError"
            /\ pc = "idle"
            /\ log = <<>>)
    /\ [][InvalidConfiguration(args') => local' = local /\ remote' = remote]_vars

(* An invalid call of each kind is made for the jenkins job after the gitlab
   job ran through: here the one without directories. *)
C14_Witness ==
    /\ args.method = "directory"
    /\ args.directories = <<>>
    /\ result["gitlab"] = "success"
    /\ result["jenkins"] = "aborted"

-----------------------------------------------------------------------------
(* The positions in the log of the calls of one kind. *)
At(op) == {k \in 1..Len(log) : log[k].op = op}

(* C15: in every run_backup call the steps come in the order create,
   retain-local, upload, retain-remote: every rm comes after the creating
   command (gitlab-backup create or tar) exited with status 0; when the upload
   is called every old backup has had its rm and no rm follows; the listing
   of the folder comes only after an upload that succeeded, and every delete
   after that listing. *)
C15_StepOrder ==
    /\ \A k \in At("rm") :
          \E c \in At("gitlab-backup") \cup At("tar") : c < k /\ log[c].ok
    /\ \A u \in At("upload") :
          /\ \A k \in At("rm") : k < u
          /\ Cardinality(At("rm")) = Len(OldBackups(backups))
    /\ \A l \in At("list") :
          /\ \E u \in At("upload") : u < l /\ log[u].ok
          /\ \A k \in At("rm") \cup At("upload") : k < l
    /\ \A d \in At("delete") :
          \E l \in At("list") : l < d /\ log[l].ok

(* A run that went through all four steps, with two files removed and two
   objects deleted. *)
C15_Witness ==
    /\ pc = "return"
    /\ Cardinality(At("rm")) = 2
    /\ Cardinality(At("upload")) = 1
    /\ Cardinality(At("list")) = 1
    /\ Cardinality(At("delete")) = 2

-----------------------------------------------------------------------------
(* The position of object o in the sequence s. *)
PositionIn(s, o) == CHOOSE k \in 1..Len(s) : s[k] = o

(* The first object of the listing among those with the greatest createdTime. *)
FirstNewestListed ==
    listing[CHOOSE k \in 1..Len(listing) :
               /\ NewestObject(listing[k], Range(listing))
               /\ \A i \in 1..(k - 1) : ~NewestObject(listing[i], Range(listing))]

(* C16: when objects of the listing share the greatest createdTime, remote
   retention keeps the one that comes first in the listing and calls delete
   for the others: the sort keeps the objects of equal createdTime in the
   order of the listing, the kept object gets no delete call and stays in the
   folder, and at the end of the loop every other listed object has had its
   delete call. *)
C16_TieKeepsFirstListed ==
    (pc \in {"delete_loop", "return"} /\ cleanup = "kept") =>
       LET j == mainPc
           deleted == Calls(j, "delete")
       IN /\ files[1] = FirstNewestListed
          /\ \A a, b \in 1..Len(listing) :
                (a < b /\ listing[a].createdTime = listing[b].createdTime) =>
                   PositionIn(files, listing[a]) < PositionIn(files, listing[b])
          /\ FirstNewestListed.id \notin Targets(deleted)
          /\ FirstNewestListed \in remote[j]
          /\ pc = "return" =>
                Targets(deleted) = Ids(Range(listing)) \ {FirstNewestListed.id}
          /\ \A k \in 1..Len(deleted) :
                deleted[k].ok => deleted[k].target \notin Ids(remote[j])

(* Two objects of the same createdTime head the listing, in the order the
   store chose (here not the order of their ids); the second has been
   deleted. *)
C16_Witness ==
    /\ pc = "return"
    /\ Len(listing) >= 2
    /\ listing[1].createdTime = listing[2].createdTime
    /\ listing[1].id > listing[2].id
    /\ Calls(mainPc, "delete") # <<>>
    /\ AllOk(Calls(mainPc, "delete"))
    /\ listing[1] \in remote[mainPc]
    /\ listing[2] \notin remote[mainPc]

-----------------------------------------------------------------------------
(* s holds exactly the elements of d that are in S, in the order of d. *)
SelectedInOrder(s, d, S) ==
    /\ Range(s) = Range(d) \cap S
    /\ \A a, b \in 1..Len(s) : a < b => PositionIn(d, s[a]) < PositionIn(d, s[b])

(* C17: directory method.  When none of the configured directories exists
   the job fails with FileNotFoundError (the no-valid-sources error) without
   tar being called, without a file of the backup directory being removed and
   without an upload; when some exist, tar is called with exactly the
   existing ones, in the order of the configuration. *)
C17_NoValidSources ==
    /\ [][pc = "tar" =>
            IF present' = {}
            THEN /\ result'[mainPc] = "aborted"
                 /\ error'[mainPc] = "FileNotFoundError"
                 /\ pc' = "idle"
                 /\ log' = log
                 /\ local' = local
                 /\ remote' = remote
            ELSE /\ SelectedInOrder(existing_dirs', args.directories, present')
                 /\ Len(log') = Len(log) + 1
                 /\ log'[Len(log')].op = "tar"]_vars
    /\ [](\A j \in Jobs :
            (args.method = "directory" /\ error[j] = "FileNotFoundError") =>
               /\ result[j] = "aborted"
               /\ At("tar") = {}
               /\ At("rm") = {}
               /\ At("upload") = {})

(* Two directories are configured and neither exists, while the backup
   directory holds two earlier backups: the job has failed and both are
   still there. *)
C17_Witness ==
    /\ Len(args.directories) = 2
    /\ present = {}
    /\ error["jenkins"] = "FileNotFoundError"
    /\ Cardinality(Matching("jenkins")) = 2

-----------------------------------------------------------------------------
(* C18: gitlab method.  When `gitlab-backup create` exits with status 0 and
   the backup directory then holds no file named *_gitlab_backup.tar, the
   job fails with FileNotFoundError (the no-artifact-found error); no rm and
   no upload is issued, and the directory and the folder are left as they
   are. *)
C18_NoArtifactFound ==
    /\ [][(/\ pc = "gitlab_create"
           /\ log' # log
           /\ log'[Len(log')].ok
           /\ \A f \in local'[mainPc] : f.kind # "gitlab") =>
              /\ result'[mainPc] = "aborted"
              /\ error'[mainPc] = "FileNotFoundError"
              /\ pc' = "idle"
              /\ local' = local
              /\ remote' = remote]_vars
    /\ [](\A j \in Jobs :
            (args.method = "gitlab" /\ error[j] = "FileNotFoundError") =>
               /\ result[j] = "aborted"
               /\ log = <<Event(j, "gitlab-backup", 0, TRUE)>>
               /\ \A f \in local[j] : f.kind # "gitlab")

(* The command exited with 0, the directory holds a file of another name
   only, the folder holds earlier backups: the job has failed. *)
C18_Witness ==
    /\ error["gitlab"] = "FileNotFoundError"
    /\ log = <<Event("gitlab", "gitlab-backup", 0, TRUE)>>
    /\ local["gitlab"] # {}
    /\ Cardinality(remote["gitlab"]) = 2

-----------------------------------------------------------------------------
(* Job j's creation step and upload both succeeded: the creating command
   exited with status 0, an artifact was found, and files().create()
   returned. *)
CreatedAndUploaded(j) ==
    /\ \E k \in 1..Len(log) : log[k].job = j /\ log[k].op \in {"gitlab-backup", "tar"} /\ log[k].ok
    /\ \E k \in 1..Len(log) : log[k].job = j /\ log[k].op = "upload" /\ log[k].ok

(* C19: in the standalone GitLabBackupManager no retention-step failure
   (listing of the folder, a delete of an object, a removal of a file)
   propagates: once creation and upload have succeeded, run() does not
   raise. *)
C19_RetentionFailuresNeverPropagate ==
    CreatedAndUploaded("gitlab") => result["gitlab"] # "aborted"

(* C20: for every entry point, a run that returned without raising has
   uploaded the artifact of that run: the log holds a successful upload of
   backup_file. *)
C20_SuccessOnlyThroughUploaded ==
    \A j \in Jobs :
       result[j] = "success" =>
          \E k \in 1..Len(log) :
             /\ log[k].job = j
             /\ log[k].op = "upload"
             /\ log[k].ok
             /\ log[k].target = backup_file

-----------------------------------------------------------------------------
(* The positions of the listing that show the object just uploaded. *)
ListedAt == {k \in 1..Len(listing) : listing[k].id = file_id}

(* The listing shows, before the object just uploaded, an object of the same
   createdTime. *)
OlderListedFirstOnTie ==
    \E n \in ListedAt : \E k \in 1..(n - 1) :
       listing[k].createdTime = listing[n].createdTime

(* C21, as stated: the object uploaded in a run is never the target of a
   delete call of that run's remote retention. *)
C21_UploadedNeverDeleted ==
    file_id # 0 => \A k \in At("delete") : log[k].target # file_id

(* C21, amended: the object uploaded in a run is not the target of a delete
   call of that run when the listing does not show it, or shows it with a
   createdTime greater than that of every other listed object, or shows it
   first among the objects of that createdTime; it is the target of a delete
   call only when the listing shows an object of the same createdTime before
   it, and then, the loop having ended, it always is. *)
C21_UploadedDeletedOnlyOnTie ==
    file_id # 0 =>
       /\ (\E k \in At("delete") : log[k].target = file_id) => OlderListedFirstOnTie
       /\ (pc = "return" /\ cleanup = "kept" /\ OlderListedFirstOnTie) =>
             \E k \in At("delete") : log[k].target = file_id

(* The listing shows the new object with the createdTime of an older one and
   ahead of it; the older one has been deleted and the new one is in the
   folder. *)
C21_Witness ==
    /\ pc = "return"
    /\ Len(listing) >= 2
    /\ listing[1].id = file_id
    /\ listing[2].createdTime = listing[1].createdTime
    /\ At("delete") # {}
    /\ \A k \in At("delete") : log[k].ok /\ log[k].target # file_id
    /\ file_id \in Ids(remote[mainPc])

-----------------------------------------------------------------------------
Terminal == {"success", "aborted"}

(* C22: every external call returning, every started job run reaches a
   terminal outcome, success or aborted; the outcome once reached does not
   change, and from then on no call is issued for the job and its directory
   and folder stay as they are. *)
C22_RunTerminates ==
    /\ \A j \in Jobs : (result[j] = "running") ~> (result[j] \in Terminal)
    /\ [][\A j \in Jobs :
            result[j] \in Terminal =>
               /\ result'[j] = result[j]
               /\ local'[j] = local[j]
               /\ remote'[j] = remote[j]
               /\ \A k \in 1..Len(log') : log'[k].job = j => (k <= Len(log) /\ log[k] = log'[k])]_vars

(* Both runs have ended in success, the second after removing files and
   deleting objects, and the process has ended with them. *)
C22_Witness ==
    /\ mainPc = "exit"
    /\ result["gitlab"] = "success"
    /\ result["jenkins"] = "success"
    /\ At("rm") # {}
    /\ At("delete") # {}

=============================================================================
